---- MODULE Spec2Model ----
(***************************************************************************)
(* Model of the Tuleap statistics scripts (Statistics/analysis.py and its  *)
(* earlier variant Statistics/statistics.py): the paginated fetch, the     *)
(* existence check of the main flow, the per-column fold, the duration     *)
(* formatter and the numbered-menu prompts.                                *)
(***************************************************************************)
EXTENDS Integers, Sequences, FiniteSets, TLC

(* ------------------------------ bounds --------------------------------- *)

\* largest page limit the modelled server reports (0 is included below)
MaxLimit == 2
\* longest artifact list given to get_columns_stats
MaxArtifacts == 3
\* longest list of items offered by ask_user
MaxItems == 3
\* longest line typed at a prompt
MaxLineLen == 2
\* number of lines read by one prompt loop
MaxPrompts == 2
\* durations 0..MaxDuration are formatted, besides those around the units
MaxDuration == 130
\* number of ill-formed responses the server may send during one fetch
MaxFaults == 1
\* round trips followed in one fetch: one more than the longest complete
\* fetch needs, so that a fetch that never ends shows as a surplus request
MaxRequests == 3 * MaxLimit + 2

VARIABLES
    pc,            \* position of the running procedure
    items,         \* server: the tracker's artifacts, in the server's order
    limit,         \* server: the page limit it applies and reports
    offset,        \* get_tuleap_artifacts: local offset
    size,          \* get_tuleap_artifacts: local size
    total_items,   \* get_tuleap_artifacts: local total_items
    results,       \* get_tuleap_artifacts: local results
    requests,      \* history of the round trips: requested offset and response
    existence,     \* value returned by check_artifact_existence
    time,          \* get_human_duration: the argument
    human_time,    \* get_human_duration: the value returned
    artifacts,     \* get_columns_stats: the argument
    current_date,  \* get_columns_stats: local current_date (seconds, UTC)
    folded,        \* get_columns_stats: number of artifacts the loop has taken
    no_column_artifact_number,  \* get_columns_stats: local of that name
    stats,         \* get_columns_stats: the data frame, a row per column
    means,         \* get_columns_stats: stats[MEAN_DURATION] before rendering
    script,        \* the file whose prompt loop runs
    menu_items,    \* ask_user: items; choose_file_format: avaliable_formats
    number_choosen,  \* the line input() returned last
    prompts,       \* number of lines read so far
    console,       \* the last message printed
    selected_item  \* the value returned by the prompt

fetchVars == <<items, limit, offset, size, total_items, results, requests,
               existence>>
formatVars == <<time, human_time>>
statsVars == <<artifacts, current_date, folded, no_column_artifact_number,
               stats, means>>

menuVars == <<script, menu_items, number_choosen, prompts, console,
              selected_item>>

vars == <<pc, fetchVars, formatVars, statsVars, menuVars>>

Min(a, b) == IF a <= b THEN a ELSE b

(* ------------------------------ server --------------------------------- *)

HeaderNames == {"X-PAGINATION-OFFSET", "X-PAGINATION-LIMIT", "X-PAGINATION-SIZE"}

\* the artifacts of a tracker holding n artifacts
TrackerItems(n) == [i \in 1..n |-> "artifact" \o ToString(i)]

\* the page of at most lim artifacts that starts after the first o ones
Page(all, lim, o) == SubSeq(all, o + 1, Min(o + lim, Len(all)))

\* the response of a paged source to a request for offset o: it echoes the
\* offset, reports its limit and the number of artifacts it holds
PagedResponse(all, lim, o) ==
    [status  |-> 200,
     headers |-> [h \in HeaderNames |->
                    CASE h = "X-PAGINATION-OFFSET" -> o
                      [] h = "X-PAGINATION-LIMIT"  -> lim
                      [] h = "X-PAGINATION-SIZE"   -> Len(all)],
     body    |-> [kind |-> "list", value |-> Page(all, lim, o)]]

\* ill-formed variants of a response: a non-success status, one pagination
\* header missing, a body that is not JSON, a JSON object instead of a list
FaultyResponses(r) ==
    { [status |-> st, headers |-> hd, body |-> bd] :
        st \in {200, 500},
        hd \in {r.headers} \cup
               { [h \in HeaderNames \ {m} |-> r.headers[h]] : m \in HeaderNames },
        bd \in {r.body, [kind |-> "invalid", value |-> <<>>],
                        [kind |-> "object", value |-> <<"error">>]} }
    \ {r}

WellFormed(r) ==
    /\ r.status = 200
    /\ DOMAIN r.headers = HeaderNames
    /\ r.body.kind = "list"

(* ----------------------- check_artifact_existence ---------------------- *)

\* requests.get(..., params={'offset': 1}).json() or False
check_artifact_existence(all, lim) ==
    PagedResponse(all, lim, 1).body.value # <<>>

\* main: if not check_artifact_existence(...): print(...); sys.exit()
MainCheck ==
    /\ pc = "main"
    /\ existence' = check_artifact_existence(items, limit)
    /\ pc' = IF existence' THEN "get_tuleap_artifacts" ELSE "exit_no_artifact"
    /\ UNCHANGED <<items, limit, offset, size, total_items, results, requests>>
    /\ UNCHANGED <<formatVars, statsVars, menuVars>>

(* ------------------------- get_tuleap_artifacts ------------------------ *)

\* while offset + size <= total_items
\* (with two faulty forms of the condition: a strict comparison, size dropped)
LoopCond_Strict(o, s, t) == o + s < t
LoopCond_NoSize(o, s, t) == o <= t
LoopCond(o, s, t) == o + s <= t

\* 'offset': offset + size
\* (with a faulty form: the page size is not added)
RequestOffset_NoAdvance(o, s) == o
RequestOffset(o, s) == o + s

\* request.json(): raises when the body is not JSON
JsonRaises(r) == r.body.kind = "invalid"

\* the three int(request.headers[...]) lookups: KeyError on a missing header
HeadersRaise(r) == DOMAIN r.headers # HeaderNames

NumFaults == Cardinality({i \in 1..Len(requests) : ~WellFormed(requests[i].response)})

\* one iteration of the loop: the request and the handling of its response
FetchIteration ==
    /\ pc = "get_tuleap_artifacts"
    /\ LoopCond(offset, size, total_items)
    /\ Len(requests) < MaxRequests
    /\ LET o    == RequestOffset(offset, size)
           good == PagedResponse(items, limit, o)
       IN \E r \in {good} \cup (IF NumFaults < MaxFaults
                                THEN FaultyResponses(good) ELSE {}) :
            /\ requests' = Append(requests, [offset |-> o, response |-> r])
            /\ IF HeadersRaise(r) \/ JsonRaises(r)
               THEN /\ pc' = "fetch_error"
                    /\ UNCHANGED <<offset, size, total_items, results>>
               ELSE /\ offset' = r.headers["X-PAGINATION-OFFSET"]
                    /\ size' = r.headers["X-PAGINATION-LIMIT"]
                    /\ total_items' = r.headers["X-PAGINATION-SIZE"]
                    /\ results' = results \o r.body.value
                    /\ pc' = pc
    /\ UNCHANGED <<items, limit, existence>>
    /\ UNCHANGED <<formatVars, statsVars, menuVars>>

\* return results
FetchReturn ==
    /\ pc = "get_tuleap_artifacts"
    /\ ~LoopCond(offset, size, total_items)
    /\ pc' = "fetch_returned"
    /\ UNCHANGED <<fetchVars, formatVars, statsVars, menuVars>>

(* -------------------------- get_human_duration ------------------------ *)

\* the units of the reference formatter of the specification (hour: 3600 s)
\* and readable_time: the units and their divisions, 365.25 * 24 * 3600,
\* 30.24 * 24 * 3600 and 24 * 3600 evaluated (all three are whole numbers)
reference_units ==
    << [date_type |-> "year",   division |-> 31557600],
       [date_type |-> "month",  division |-> 2612736],
       [date_type |-> "day",    division |-> 86400],
       [date_type |-> "hour",   division |-> 3600],
       [date_type |-> "minute", division |-> 60] >>
readable_time ==
    << [date_type |-> "year",   division |-> 31557600],
       [date_type |-> "month",  division |-> 2612736],
       [date_type |-> "day",    division |-> 86400],
       [date_type |-> "hour",   division |-> 60],
       [date_type |-> "minute", division |-> 60] >>

\* int(n / d) for d > 0: the quotient truncated towards zero
\* (with a faulty form: the quotient rounded down, as // does)
Trunc_Floor(n, d) == n \div d
Trunc(n, d) == IF n >= 0 THEN n \div d ELSE -((-n) \div d)

\* f"{time_to_display} {date_type}", date_type += 's' when time_to_display > 1
Display(time_to_display, date_type) ==
    ToString(time_to_display) \o " " \o date_type
        \o (IF time_to_display > 1 THEN "s" ELSE "")

\* the for loop from unit i on, the remaining time being the fraction n / d:
\*   reduce_time = time / division
\*   time -= division * int(reduce_time)
\*   time_to_display = int(reduce_time + .5)
RECURSIVE HumanFrom(_, _, _)
HumanFrom(i, n, d) ==
    IF i > Len(readable_time) THEN ""
    ELSE LET division        == readable_time[i].division
             whole           == Trunc(n, d * division)
             time_to_display == Trunc(2 * n + d * division, 2 * d * division)
         IN  IF time_to_display > 0
             THEN Display(time_to_display, readable_time[i].date_type)
             ELSE HumanFrom(i + 1, n - division * whole * d, d)

\* get_human_duration(time) for time = n / d seconds
HumanFraction(n, d) == HumanFrom(1, n, d)

get_human_duration(t) == HumanFraction(t, 1)

\* the durations formatted: the small ones, those around the halves and the
\* multiples of each division, and the opposite of each of them (a
\* submission date after current_date gives a negative duration)
Divisions == {reference_units[i].division : i \in 1..Len(reference_units)}
Durations ==
    LET elapsed ==
            (0..MaxDuration)
            \cup {3700, 7200, 90000}
            \cup {(v \div 2) + e : v \in Divisions, e \in {-1, 0, 1}}
            \cup {m * v + e : v \in Divisions, m \in 1..2, e \in {-1, 0, 1}}
            \cup {m * v + (v \div 2) + e :
                     v \in Divisions, m \in 1..2, e \in {-1, 0}}
    IN  elapsed \cup {-t : t \in elapsed}

FormatDuration ==
    /\ pc = "get_human_duration"
    /\ human_time' = get_human_duration(time)
    /\ pc' = "format_returned"
    /\ UNCHANGED <<fetchVars, time, statsVars, menuVars>>

(* --------------------------- get_columns_stats ------------------------- *)

\* artifact['submitted_on'][:-3] + "00" parsed with '%Y-%m-%dT%H:%M:%S%z':
\* the minutes of the UTC offset are replaced by 00. A submitted_on string is
\* modelled by its wall-clock time in seconds and the hours and minutes of
\* its offset, the parsed date by the wall-clock time and the offset kept.
ParseSubmittedOn(submitted_on) ==
    [local |-> submitted_on.local, tzh |-> submitted_on.tzh]

\* the instant of an aware datetime, in seconds
Instant(date) == date.local - 3600 * date.tzh

\* (current_date - submitted_date).total_seconds()
Duration(now, submitted_date) == now - Instant(submitted_date)

\* submitted_date < stats.loc[column_name, OLDEST_DURATION]
\* (with a faulty form: a non-strict comparison)
Older_OrEqual(submitted_date, oldest) == Instant(submitted_date) <= Instant(oldest)
Older(submitted_date, oldest) == Instant(submitted_date) < Instant(oldest)

\* no_column_artifact_number += 1
\* (with a faulty form: the increment left out)
CountNoColumn_Skipped(n) == n
CountNoColumn(n) == n + 1

\* stats.loc[column_name] = [1, duration, submitted_date, label]
NewRow(duration, submitted_date, label) ==
    [items_number |-> 1, mean_duration |-> duration,
     oldest_duration |-> submitted_date, oldest_name |-> label]

\* stats.loc[column_name, MEAN_DURATION] += duration
\* (with a faulty form: a running mean kept instead of the running total)
Accumulate_RunningMean(total, duration) == (total + duration) \div 2
Accumulate(total, duration) == total + duration

\* the else branch: the row of a column that is already in stats.index
UpdateRow(row, duration, submitted_date, label) ==
    LET older == Older(submitted_date, row.oldest_duration)
    IN  [items_number    |-> row.items_number + 1,
         mean_duration   |-> Accumulate(row.mean_duration, duration),
         oldest_duration |-> IF older THEN submitted_date ELSE row.oldest_duration,
         oldest_name     |-> IF older THEN label ELSE row.oldest_name]

\* the body of the for loop, on the pair of no_column_artifact_number and stats
FoldArtifact(acc, artifact, now) ==
    LET column_name    == artifact.status
        label          == artifact.title
        submitted_date == ParseSubmittedOn(artifact.submitted_on)
        duration       == Duration(now, submitted_date)
    IN  IF column_name = ""
        THEN [acc EXCEPT !.no_column = CountNoColumn(@)]
        ELSE IF column_name \notin DOMAIN acc.stats
        THEN [acc EXCEPT !.stats =
                 @ @@ (column_name :> NewRow(duration, submitted_date, label))]
        ELSE [acc EXCEPT !.stats[column_name] =
                 UpdateRow(@, duration, submitted_date, label)]

\* the whole for loop over a list
RECURSIVE FoldAll(_, _, _)
FoldAll(acc, list, now) ==
    IF list = <<>> THEN acc
    ELSE FoldAll(FoldArtifact(acc, Head(list), now), Tail(list), now)

EmptyStats == [no_column |-> 0, stats |-> <<>>]

\* df[MEAN_DURATION] / df[ITEMS_NUMBER], kept as a fraction
MeanOf(row) == [num |-> row.mean_duration, den |-> row.items_number]

\* the two passes after the loop and, in analysis.py, the removal of tzinfo
FinishRow(row) ==
    [items_number    |-> row.items_number,
     mean_duration   |-> HumanFraction(MeanOf(row).num, MeanOf(row).den),
     oldest_duration |-> row.oldest_duration.local,
     oldest_name     |-> row.oldest_name]

\* for artifact in artifacts: one artifact
StatsFold ==
    /\ pc = "get_columns_stats"
    /\ folded < Len(artifacts)
    /\ LET acc == FoldArtifact([no_column |-> no_column_artifact_number,
                                stats |-> stats],
                               artifacts[folded + 1], current_date)
       IN  /\ no_column_artifact_number' = acc.no_column
           /\ stats' = acc.stats
    /\ folded' = folded + 1
    /\ UNCHANGED <<pc, fetchVars, formatVars, artifacts, current_date, means,
                   menuVars>>

\* the statements after the loop, and return stats
StatsFinish ==
    /\ pc = "get_columns_stats"
    /\ folded = Len(artifacts)
    /\ means' = [c \in DOMAIN stats |-> MeanOf(stats[c])]
    /\ stats' = [c \in DOMAIN stats |-> FinishRow(stats[c])]
    /\ pc' = "stats_returned"
    /\ UNCHANGED <<fetchVars, formatVars, artifacts, current_date, folded,
                   no_column_artifact_number, menuVars>>

\* the inputs of the fold: statuses (the empty one is "no column"), and
\* submitted_on values 100 s and 300 s before current_date, one in another
\* offset, one whose offset has minutes, one after current_date
Statuses == {"", "todo", "done"}
Now == 100000
SubmittedOns ==
    { [local |-> Now - 100,        tzh |-> 0, tzm |-> 0],
      [local |-> Now - 300,        tzh |-> 0, tzm |-> 0],
      [local |-> Now - 100 + 3600, tzh |-> 1, tzm |-> 0],
      [local |-> Now - 200 + 3600, tzh |-> 1, tzm |-> 30],
      [local |-> Now + 60,         tzh |-> 0, tzm |-> 0] }
ArtifactLists ==
    UNION { [1..n -> { [status |-> st, submitted_on |-> so] :
                          st \in Statuses, so \in SubmittedOns }]
            : n \in 0..MaxArtifacts }
Titled(list) ==
    [i \in 1..Len(list) |->
        [status |-> list[i].status, title |-> "title" \o ToString(i),
         submitted_on |-> list[i].submitted_on]]

(* ------------------------ ask_user, choose_file_format ----------------- *)

\* the characters typed at a prompt, and the value int() gives a digit
Digits == {"0", "1", "2", "3", "4"}
Chars == Digits \cup {"a"}
DigitValue(c) ==
    CASE c = "0" -> 0 [] c = "1" -> 1 [] c = "2" -> 2 [] c = "3" -> 3 [] c = "4" -> 4

Lines == UNION { [1..n -> Chars] : n \in 0..MaxLineLen }

\* re.match('^\d+$', number_choosen) in analysis.py,
\* re.match('^\d*$', number_choosen) in statistics.py
Matches(file, line) ==
    /\ \A i \in 1..Len(line) : line[i] \in Digits
    /\ file = "analysis.py" => Len(line) >= 1

\* int(number_choosen) raises ValueError on the empty string
IntRaises(line) == line = <<>>

\* int(number_choosen) for a line of digits
RECURSIVE Int_(_)
Int_(line) ==
    IF Len(line) = 1 THEN DigitValue(line[1])
    ELSE 10 * Int_(SubSeq(line, 1, Len(line) - 1)) + DigitValue(line[Len(line)])

\* avaliable_formats of choose_file_format, AVAILABLE_FORMATS of analysis.py
FormatItems == <<"csv", "json", "xlsx">>

ItemLists == { [i \in 1..n |-> "item" \o ToString(i)] : n \in 0..MaxItems }

\* ask_user up to its loop: no item ends the run, a single item is returned
AskUserEnter ==
    /\ pc = "ask_user"
    /\ IF Len(menu_items) = 0
       THEN /\ console' = "Aucun n'est disponible"
            /\ pc' = "menu_exit"
            /\ UNCHANGED selected_item
       ELSE IF Len(menu_items) = 1
       THEN /\ console' = "Le seul disponible est"
            /\ selected_item' = menu_items[1]
            /\ pc' = "menu_returned"
       ELSE /\ console' = "Les disponibles sont"
            /\ pc' = "menu_loop"
            /\ UNCHANGED selected_item
    /\ UNCHANGED <<fetchVars, formatVars, statsVars, script, menu_items,
                   number_choosen, prompts>>

\* choose_file_format up to its loop
ChooseFormatEnter ==
    /\ pc = "choose_file_format"
    /\ console' = "Choisissez le format de fichier"
    /\ pc' = "menu_loop"
    /\ UNCHANGED <<fetchVars, formatVars, statsVars, script, menu_items,
                   number_choosen, prompts, selected_item>>

\* one iteration of while True: input() and the handling of the line
MenuReadLine ==
    /\ pc = "menu_loop"
    /\ prompts < MaxPrompts
    /\ \E line \in Lines :
        /\ number_choosen' = line
        /\ prompts' = prompts + 1
        /\ IF Matches(script, line)
           THEN IF IntRaises(line)
                THEN /\ pc' = "menu_crashed"
                     /\ console' = "ValueError"
                     /\ UNCHANGED selected_item
                ELSE IF 1 <= Int_(line) /\ Int_(line) <= Len(menu_items)
                THEN /\ selected_item' = menu_items[Int_(line)]
                     /\ console' = "Vous avez selectionne"
                     /\ pc' = "menu_returned"
                ELSE /\ console' = "La saisie est incorrecte"
                     /\ UNCHANGED <<pc, selected_item>>
           ELSE /\ console' = "La saisie est incorrecte"
                /\ UNCHANGED <<pc, selected_item>>
    /\ UNCHANGED <<fetchVars, formatVars, statsVars, script, menu_items>>

(* ------------------------------ behaviour ------------------------------ *)

InitFetchLocals ==
    /\ offset = 0
    /\ size = 0
    /\ total_items = 0
    /\ results = <<>>
    /\ requests = <<>>
    /\ existence = FALSE

InitServer ==
    /\ limit \in 0..MaxLimit
    /\ items \in {TrackerItems(n) : n \in 0..(3 * MaxLimit)}
    /\ pc \in {"main", "get_tuleap_artifacts"}

InitNoServer ==
    /\ limit = 1
    /\ items = <<>>

InitFormatIdle ==
    /\ time = 0
    /\ human_time = ""

InitFormat ==
    /\ pc = "get_human_duration"
    /\ time \in Durations
    /\ human_time = ""

InitStatsLocals ==
    /\ current_date = Now
    /\ folded = 0
    /\ no_column_artifact_number = 0
    /\ stats = <<>>
    /\ means = <<>>

InitStatsIdle ==
    /\ artifacts = <<>>
    /\ InitStatsLocals

InitStats ==
    /\ pc = "get_columns_stats"
    /\ artifacts \in {Titled(l) : l \in ArtifactLists}
    /\ InitStatsLocals

InitMenuLocals ==
    /\ number_choosen = <<>>
    /\ prompts = 0
    /\ console = ""
    /\ selected_item = ""

InitMenuIdle ==
    /\ script = "analysis.py"
    /\ menu_items = <<>>
    /\ InitMenuLocals

InitMenu ==
    /\ \/ /\ pc = "ask_user"
          /\ script \in {"analysis.py", "statistics.py"}
          /\ menu_items \in ItemLists \cup {FormatItems}
       \/ /\ pc = "choose_file_format"
          /\ script = "statistics.py"
          /\ menu_items = FormatItems
    /\ InitMenuLocals

Init ==
    \/ InitFetchLocals /\ InitServer /\ InitFormatIdle /\ InitStatsIdle
          /\ InitMenuIdle
    \/ InitFetchLocals /\ InitNoServer /\ InitFormat /\ InitStatsIdle
          /\ InitMenuIdle
    \/ InitFetchLocals /\ InitNoServer /\ InitFormatIdle /\ InitStats
          /\ InitMenuIdle
    \/ InitFetchLocals /\ InitNoServer /\ InitFormatIdle /\ InitStatsIdle
          /\ InitMenu

Next ==
    \/ MainCheck
    \/ FetchIteration
    \/ FetchReturn
    \/ FormatDuration
    \/ StatsFold
    \/ StatsFinish
    \/ AskUserEnter
    \/ ChooseFormatEnter
    \/ MenuReadLine

Spec == Init /\ [][Next]_vars

(* ===================== properties: get_tuleap_artifacts ================= *)

\* every response of the fetch so far came from the paged source unaltered
NoFault == \A i \in 1..Len(requests) : WellFormed(requests[i].response)

IsPrefix(s, t) == Len(s) <= Len(t) /\ s = SubSeq(t, 1, Len(s))

\* the collection sizes the pagination property names, for page size p
NamedSizes(p) == {0, 1, p, p + 1, 3 * p}

\* C1: against a paged source of N items serving pages of P >= 1 items that
\* echoes the offset and reports P and N, the fetch accumulates the items each
\* once and in the source's order, and returns exactly the N items, for every
\* N in {0, 1, P, P+1, 3P}; the loop ends after at most N div P + 1 requests.
C1_PaginationComplete ==
    (NoFault /\ limit >= 1 /\ Len(items) \in NamedSizes(limit)) =>
        /\ IsPrefix(results, items)
        /\ pc = "fetch_returned" => results = items
        /\ Len(requests) <= (Len(items) \div limit) + 1
        /\ Len(requests) = (Len(items) \div limit) + 1 =>
              ~LoopCond(offset, size, total_items)

C1_Witness ==
    /\ pc = "fetch_returned"
    /\ NoFault
    /\ limit >= 2
    /\ Len(items) = 3 * limit
    /\ results = items

\* C8 (as claimed): a response that is a non-success HTTP response, lacks a
\* pagination header or has a malformed body is the last one of the fetch and
\* leaves it in the error state.
C8_FaultEndsFetch ==
    \A i \in 1..Len(requests) :
        ~WellFormed(requests[i].response) =>
            i = Len(requests) /\ pc = "fetch_error"

\* C9 (as claimed): on an empty collection the fetch issues exactly one
\* request, whatever page size the server reports, 0 included.
C9_EmptyOneRequestAnySize ==
    (NoFault /\ items = <<>>) => Len(requests) <= 1

\* C9 (amended): on an empty collection whose server reports a page limit
\* P >= 1, the fetch issues exactly one request, takes offset 0, size P and
\* total 0 from it and returns the empty list.
C9_EmptyOneRequest ==
    (NoFault /\ items = <<>> /\ limit >= 1) =>
        /\ Len(requests) <= 1
        /\ Len(requests) = 1 =>
              offset = 0 /\ size = limit /\ total_items = 0
        /\ pc = "fetch_returned" => Len(requests) = 1 /\ results = <<>>

C9_Witness ==
    /\ pc = "fetch_returned"
    /\ items = <<>>
    /\ limit >= 1
    /\ NoFault
    /\ Len(requests) = 1
    /\ results = <<>>

\* the page cursor as a response leaves it
CursorEnd(r) == r.headers["X-PAGINATION-OFFSET"] + r.headers["X-PAGINATION-LIMIT"]
CursorTotal(r) == r.headers["X-PAGINATION-SIZE"]

\* C10 (as claimed): no request follows a response that left
\* offset + page size >= total.
C10_StopsAtTotal ==
    (NoFault /\ limit >= 1) =>
        \A i \in 1..(Len(requests) - 1) :
            LET r == requests[i].response
            IN  CursorEnd(r) < CursorTotal(r)

\* C10 (amended): no request follows a response that left
\* offset + page size > total; a request does follow one that left them equal,
\* so a collection of N = k*P items (P >= 1) is fetched in exactly k+1
\* requests, the last of which returns an empty page.
C10_StopsPastTotal ==
    /\ \A i \in 1..(Len(requests) - 1) :
          LET r == requests[i].response
          IN  CursorEnd(r) <= CursorTotal(r)
    /\ (pc = "fetch_returned" /\ NoFault /\ limit >= 1
          /\ Len(items) % limit = 0) =>
            /\ Len(requests) = (Len(items) \div limit) + 1
            /\ requests[Len(requests)].response.body.value = <<>>

C10_Witness ==
    /\ pc = "fetch_returned"
    /\ NoFault
    /\ limit >= 1
    /\ Len(items) >= 1
    /\ Len(items) % limit = 0
    /\ Len(requests) = (Len(items) \div limit) + 1

(* ====================== properties: get_human_duration ================== *)

\* round-half-up of t / v for t >= 0
RoundHalfUp(t, v) == (2 * t + v) \div (2 * v)

\* the reference formatter: the first unit, from the largest to the smallest,
\* whose round-half-up quotient is >= 1, pluralised when that value is >= 2
RECURSIVE ReferenceFrom(_, _)
ReferenceFrom(i, t) ==
    IF i > Len(reference_units) THEN ""
    ELSE LET u == reference_units[i]
             q == RoundHalfUp(t, u.division)
         IN  IF q >= 1
             THEN ToString(q) \o " " \o u.date_type \o (IF q >= 2 THEN "s" ELSE "")
             ELSE ReferenceFrom(i + 1, t)

\* C4 (as claimed): for every non-negative whole duration get_human_duration
\* returns what the reference formatter over year, month, day, hour (3600 s)
\* and minute (60 s) returns; 30 gives "1 minute", 3700 "1 hour", 90000
\* "1 day", 5 "" and 7200 "2 hours".
C4_MatchesReference ==
    (pc = "format_returned" /\ time >= 0) =>
        /\ human_time = ReferenceFrom(1, time)
        /\ time = 30 => human_time = "1 minute"
        /\ time = 3700 => human_time = "1 hour"
        /\ time = 90000 => human_time = "1 day"
        /\ time = 5 => human_time = ""
        /\ time = 7200 => human_time = "2 hours"

(* ====================== properties: get_columns_stats =================== *)

\* the positions, among the first n of the list, of the artifacts of column c
InColumn(list, n, c) == {i \in 1..n : list[i].status = c}

\* the parsed submission date of the artifact at position i
SubmittedDate(list, i) == ParseSubmittedOn(list[i].submitted_on)

RECURSIVE SumOver(_, _)
SumOver(f, S) ==
    IF S = {} THEN 0
    ELSE LET x == CHOOSE y \in S : TRUE IN f[x] + SumOver(f, S \ {x})

\* the sum of items_number over all the rows of a data frame
SumItemsNumber(frame) ==
    SumOver([c \in DOMAIN frame |-> frame[c].items_number], DOMAIN frame)

\* C2: after every prefix of the artifact list has been folded, the sum of
\* items_number over all buckets plus no_column_artifact_number is the number
\* of artifacts folded so far, no_column_artifact_number counting the
\* artifacts whose status is the empty string; when get_columns_stats returns
\* the sum is the length of the list.
C2_CountsAddUp ==
    pc \in {"get_columns_stats", "stats_returned"} =>
        /\ SumItemsNumber(stats) + no_column_artifact_number = folded
        /\ no_column_artifact_number = Cardinality(InColumn(artifacts, folded, ""))
        /\ pc = "stats_returned" =>
              SumItemsNumber(stats) + no_column_artifact_number = Len(artifacts)

C2_Witness ==
    /\ pc = "stats_returned"
    /\ Len(artifacts) >= 3
    /\ no_column_artifact_number >= 1
    /\ Cardinality(DOMAIN stats) >= 2

\* C3: while get_columns_stats folds, every bucket's oldest timestamp is at
\* most the submission timestamp of every artifact folded into the bucket, and
\* the bucket's oldest-title is the title of the first artifact of the bucket,
\* in input order, whose submission timestamp equals the oldest timestamp.
C3_OldestIsMinimum ==
    pc = "get_columns_stats" =>
        \A c \in DOMAIN stats :
            LET members == InColumn(artifacts, folded, c)
                oldest  == Instant(stats[c].oldest_duration)
                holders == {i \in members :
                               Instant(SubmittedDate(artifacts, i)) = oldest}
            IN  /\ \A i \in members :
                      oldest <= Instant(SubmittedDate(artifacts, i))
                /\ holders # {}
                /\ \A i \in holders :
                      (\A j \in holders : i <= j) =>
                          /\ stats[c].oldest_name = artifacts[i].title
                          /\ stats[c].oldest_duration = SubmittedDate(artifacts, i)

\* a bucket of three artifacts whose oldest one came second, another artifact
\* of the same instant after it
C3_Witness ==
    /\ pc = "get_columns_stats"
    /\ folded = 3
    /\ \E c \in DOMAIN stats :
          /\ InColumn(artifacts, folded, c) = {1, 2, 3}
          /\ stats[c].oldest_name = artifacts[2].title
          /\ Instant(SubmittedDate(artifacts, 2)) < Instant(SubmittedDate(artifacts, 1))
          /\ Instant(SubmittedDate(artifacts, 3)) = Instant(SubmittedDate(artifacts, 2))

\* the lists that hold the artifacts of a list in another order
Reorderings(list) ==
    { [i \in 1..Len(list) |-> list[p[i]]] :
        p \in {q \in [1..Len(list) -> 1..Len(list)] :
                  \A i, j \in 1..Len(list) : q[i] = q[j] => i = j} }

\* the value of stats[MEAN_DURATION] after the mean pass, for a whole list
MeansOf(list, now) ==
    LET frame == FoldAll(EmptyStats, list, now).stats
    IN  [c \in DOMAIN frame |-> MeanOf(frame[c])]

\* the duration get_columns_stats computes for the artifact at position i
DurationAt(list, i, now) == Duration(now, SubmittedDate(list, i))

\* C5: the mean duration of every bucket, before it is rendered, is the sum
\* of the durations of the bucket's artifacts divided by the bucket's item
\* count, whatever the order of the artifacts in the input; it is 200 s for
\* two artifacts of 100 s and 300 s.
C5_MeanIsTotalOverCount ==
    pc = "stats_returned" =>
        /\ \A c \in DOMAIN means :
              LET members == InColumn(artifacts, Len(artifacts), c)
                  total   == SumOver([i \in members |->
                                        DurationAt(artifacts, i, current_date)],
                                     members)
              IN  /\ means[c].den = Cardinality(members)
                  /\ means[c].num = total
                  /\ ({DurationAt(artifacts, i, current_date) : i \in members}
                         = {100, 300} /\ Cardinality(members) = 2)
                        => means[c].num = 200 * means[c].den
        /\ \A other \in Reorderings(artifacts) :
              MeansOf(other, current_date) = means

C5_Witness ==
    /\ pc = "stats_returned"
    /\ \E c \in DOMAIN means :
          /\ InColumn(artifacts, Len(artifacts), c) = {1, 3}
          /\ DurationAt(artifacts, 1, current_date) = 300
          /\ DurationAt(artifacts, 3, current_date) = 100
          /\ means[c] = [num |-> 400, den |-> 2]

(* ================= properties: main flow and prompt loops =============== *)

\* C6 (as claimed): check_artifact_existence is truthy exactly when the
\* tracker has at least one artifact: the main flow exits with the 'no
\* artifact found' message only for a tracker without artifacts, and goes on
\* to the fetch for every tracker holding N >= 1 artifacts.
C6_ExistenceIffArtifacts ==
    limit >= 1 =>
        /\ pc = "exit_no_artifact" => items = <<>>
        /\ existence => items # <<>>

\* a line is a valid choice among n items when it is the numeral of a number
\* of 1..n
ValidChoice(line, n) ==
    /\ line # <<>>
    /\ \A i \in 1..Len(line) : line[i] \in Digits
    /\ Int_(line) \in 1..n

\* C7 (as claimed): in the prompt loops of ask_user (two or more items) and
\* of choose_file_format an invalid line - empty, not made of digits, or a
\* number outside 1..len(items) - is answered by the 'incorrect input' message
\* and a new prompt and never ends the run with an error; the loop returns
\* only on a number k of 1..len(items), and returns items[k-1].
C7_InvalidInputReprompts ==
    prompts >= 1 =>
        /\ pc # "menu_crashed"
        /\ ~ValidChoice(number_choosen, Len(menu_items)) =>
              pc = "menu_loop" /\ console = "La saisie est incorrecte"
        /\ pc = "menu_returned" =>
              /\ ValidChoice(number_choosen, Len(menu_items))
              /\ selected_item = menu_items[Int_(number_choosen)]

\* the results that name exactly one unit: a count k >= 1, a space and the
\* name of one unit, with an s when k > 1. No count exceeds 720: 43199 s is
\* the longest duration reported in the unit of division 60, as 720 of them,
\* and the other units report fewer than 20 over the durations formatted.
NamesOfUnit(text) ==
    { <<i, k>> \in (1..Len(readable_time)) \X (1..720) :
          text = ToString(k) \o " " \o readable_time[i].date_type
                     \o (IF k > 1 THEN "s" ELSE "") }

\* C11: for every whole duration, negative ones included, get_human_duration
\* returns, and what it returns is the empty string exactly when the duration
\* is below 30 seconds; for a duration of 30 seconds or more it is a
\* non-empty string that names exactly one unit.
C11_EmptyBelowThirty ==
    pc = "format_returned" =>
        /\ human_time = "" <=> time < 30
        /\ time >= 30 => Cardinality(NamesOfUnit(human_time)) = 1
        /\ time < 30 => NamesOfUnit(human_time) = {}

\* a negative duration of more than a year has been formatted
C11_Witness ==
    /\ pc = "format_returned"
    /\ time < -31557600
    /\ human_time = ""

====
